---- MODULE Spec2Model ----
(***************************************************************************)
(* Gray-Scott reaction-diffusion renderer (AEMuto/gray-scott-rd).          *)
(*                                                                         *)
(* The repository holds two variants of the DiffusionPatternRenderer       *)
(* component: the canvas-2D one (src/src/App.tsx, "cpu" below) and the     *)
(* WebGL one (src/unnamed/part_000, "gpu" below).  The variable backend    *)
(* says which of the two is mounted.                                       *)
(*                                                                         *)
(* Numbers.  Concentrations are held in units of 1/Q, the parameters dA,   *)
(* dB, feed, feedDiff, killMin, killMax, sharpness and threshold in units  *)
(* of 1/Q as well (the sliders step by 0.001), iterations and              *)
(* feedVariation are integers.  Every product of the update rule is        *)
(* rounded to the nearest 1/Q, as floating point rounds every product.     *)
(* The rounding error of the decimal stencil weights themselves and        *)
(* floating-point overflow are not modelled.                               *)
(***************************************************************************)
EXTENDS Integers, Sequences, FiniteSets, TLC

VARIABLES
  backend,         \* "cpu" (App.tsx) or "gpu" (part_000)
  width, height,   \* canvas.width, canvas.height
  buf,             \* the two buffers: Float32Array grids / float textures
  currentGridRef,  \* cpu: index of the buffer currentGridRef.current holds
  nextGridRef,     \* cpu: index of the buffer nextGridRef.current holds
  writeIdx,        \* gpu: texture the last upload or draw wrote
  isRunning,       \* React state
  params,          \* React state
  closure,         \* isRunning and params as captured by the live effect
  effectPending,   \* state changed, the effect has not re-run yet
  animationFrame,  \* a requestAnimationFrame callback of the live effect waits
  loops,           \* callbacks waiting in the browser's animation-frame queue
  rendered,        \* what the canvas shows: the inputs of the last render
  seeds,           \* the centres drawn by the last seeding
  oobWrite,        \* the last seeding indexed outside its array
  reseeded,        \* the last action ran the random seeding
  event,           \* the last action
  schedule,        \* the order in which a pass takes the cells
  frames,          \* batches run so far
  edits            \* parameter edits so far

vars == <<backend, width, height, buf, currentGridRef, nextGridRef, writeIdx,
          isRunning, params, closure, effectPending, animationFrame, loops,
          rendered,
          seeds, oobWrite, reseeded, event, schedule, frames, edits>>

(***************************************************************************)
(* Bounds of the model.                                                    *)
(***************************************************************************)
\* canvas.width (400 in the code), scaled down
GridW == 8
\* canvas.height (400 in the code), scaled down
GridH == 2
\* the random centres fall on the first MaxCentre cells of the grid
MaxCentre == 2
\* batches (calls of update that step) per session
MaxFrames == 2
\* parameter edits per session
MaxEdits == 1

(***************************************************************************)
(* Program constants.                                                      *)
(***************************************************************************)
\* the resolution of a stored concentration and of a slider
Q == 1000
\* for (let i = 0; i < 20; i++)
NumSpots == 20
\* const radius = 3
radius == 3
\* the 0.9 of gs_map = (gs - threshold) / (0.9 - threshold), in units of 1/Q
Knee == 900

Backends == {"cpu", "gpu"}

Abs(n) == IF n < 0 THEN -n ELSE n

\* JavaScript's %: the remainder takes the sign of the dividend.
JsRem(a, n) == IF a >= 0 THEN a % n ELSE -((-a) % n)

\* nearest multiple: floor(n/d + 1/2), d > 0
Rnd(n, d) == (2 * n + d) \div (2 * d)

Cells(w, h) == 0 .. (w * h - 1)

DefaultParams ==
  [dA |-> 1000, dB |-> 500, feed |-> 30, feedDiff |-> 15, killMin |-> 56,
   killMax |-> 59, iterations |-> 8, feedVariation |-> 50, sharpness |-> 100,
   threshold |-> 500]

(***************************************************************************)
(* Seeding: initGrid (cpu) and initializeTexture (gpu).                    *)
(***************************************************************************)
\* new Float32Array(n): zero-filled; a texture allocated with null data too
ZeroGrid(w, h) == [c \in Cells(w, h) |-> <<0, 0>>]

\* "Initialize with chemical A"
FillA(w, h) == [c \in Cells(w, h) |-> <<Q, 0>>]

Offsets == {d \in (-radius .. radius) \X (-radius .. radius) :
              d[1] * d[1] + d[2] * d[2] <= radius * radius}

\* The cell index py * width + px the code computes for the offset (dx, dy)
\* of a spot centred at (x, y).
SpotIndex(w, h, x, y, d) == JsRem(y + d[2] + h, h) * w + JsRem(x + d[1] + w, w)

SpotIndices(w, h, ctr) ==
  {SpotIndex(w, h, ctr % w, ctr \div w, d) : d \in Offsets}

\* A typed-array store at an index outside the array is dropped.
SeedGrid(w, h, centres) ==
  LET hit == UNION {SpotIndices(w, h, ctr) : ctr \in centres}
  IN  [c \in Cells(w, h) |-> IF c \in hit THEN <<0, Q>> ELSE FillA(w, h)[c]]

SeedOob(w, h, centres) ==
  \E ctr \in centres : \E i \in SpotIndices(w, h, ctr) : i \notin Cells(w, h)

\* The 20 draws of Math.random fall on a non-empty set of at most NumSpots
\* cells; spots all write the same value, so the set decides the grid.
Centres(w, h) ==
  {s \in SUBSET {c \in Cells(w, h) : c < MaxCentre} :
     s # {} /\ Cardinality(s) <= NumSpots}

(***************************************************************************)
(* The step kernel: computeStep's loop body (cpu), computeShaderSource     *)
(* (gpu).                                                                  *)
(***************************************************************************)
\* Weight with a centre weight of -1.2: the weights no longer sum to zero
WeightSkew(dx, dy) ==
  IF dx = 0 /\ dy = 0 THEN -24
  ELSE IF dx = 0 \/ dy = 0 THEN 4
  ELSE 1

\* stencil weights, in twentieths: 0.05, 0.2, -1.0
Weight(dx, dy) ==
  IF dx = 0 /\ dy = 0 THEN -20
  ELSE IF dx = 0 \/ dy = 0 THEN 4
  ELSE 1

\* cpu: ((y+dy+height) % height) * width + (x+dx+width) % width;
\* gpu: a NEAREST lookup of a texture whose wrap mode is REPEAT
Neighbour(be, w, h, x, y, dx, dy) ==
  IF be = "cpu"
  THEN JsRem(y + dy + h, h) * w + JsRem(x + dx + w, w)
  ELSE ((y + dy) % h) * w + ((x + dx) % w)

\* laplaceA (k = 1) or laplaceB (k = 2), in units of 1/(20 Q)
Laplace(be, g, w, h, c, k) ==
  LET x == c % w
      y == c \div w
      v(dx, dy) == Weight(dx, dy) * g[Neighbour(be, w, h, x, y, dx, dy)][k]
  IN  v(-1, -1) + v(0, -1) + v(1, -1)
      + v(-1, 0) + v(0, 0) + v(1, 0)
      + v(-1, 1) + v(0, 1) + v(1, 1)

\* feedRate, in units of 1/(100 Q)
FeedRate(p) == 100 * p.feed + (p.feedVariation - 50) * p.feedDiff

\* killRate of column x, in units of 1/(w Q).  cpu: killMin + (x / width) *
\* (killMax - killMin); gpu: the uniform u_kill, which computeStep sets to
\* params.killMin
KillRate(be, p, x, w) ==
  IF be = "cpu"
  THEN w * p.killMin + x * (p.killMax - p.killMin)
  ELSE w * p.killMin

\* a * b * b
Reaction(a, b) == Rnd(a * b * b, Q * Q)

\* nextA of cell c before the clamp:
\* a + (laplaceA * dA - a * b * b + feedRate * (1 - a))
RawA(be, g, w, h, c, p) ==
  g[c][1] + Rnd(p.dA * Laplace(be, g, w, h, c, 1), 20 * Q)
    - Reaction(g[c][1], g[c][2])
    + Rnd(FeedRate(p) * (Q - g[c][1]), 100 * Q)

\* nextB of cell c before the clamp:
\* b + (laplaceB * dB + a * b * b - (feedRate + killRate) * b)
RawB(be, g, w, h, c, p) ==
  g[c][2] + Rnd(p.dB * Laplace(be, g, w, h, c, 2), 20 * Q)
    + Reaction(g[c][1], g[c][2])
    - Rnd((FeedRate(p) * w + 100 * KillRate(be, p, c % w, w)) * g[c][2], 100 * w * Q)

Min(a, b) == IF a < b THEN a ELSE b
Max(a, b) == IF a > b THEN a ELSE b

\* Clamp01 without its lower bound: Math.min(1, v)
ClampTop(v) == Min(Q, v)

\* Math.max(0, Math.min(1, v)); clamp(v, 0.0, 1.0)
Clamp01(v) == Max(0, Min(Q, v))

CellStep(be, g, w, h, c, p) ==
  <<Clamp01(RawA(be, g, w, h, c, p)), Clamp01(RawB(be, g, w, h, c, p))>>

\* RunCells updating in place: each result is stored into the buffer being
\* read as well
RECURSIVE RunCellsInPlace(_, _, _, _, _, _, _, _)
RunCellsInPlace(be, bufs, rd, wr, w, h, p, order) ==
  IF order = <<>> THEN bufs
  ELSE LET c == Head(order)
           v == CellStep(be, bufs[rd], w, h, c, p)
       IN  RunCellsInPlace(be, [i \in 0 .. 1 |-> [bufs[i] EXCEPT ![c] = v]],
                           rd, wr, w, h, p, Tail(order))

\* One pass over the grid: the cells are taken in the given order, each read
\* goes to buffer rd as it is at that moment, each write to buffer wr.
RECURSIVE RunCells(_, _, _, _, _, _, _, _)
RunCells(be, bufs, rd, wr, w, h, p, order) ==
  IF order = <<>> THEN bufs
  ELSE LET c == Head(order)
       IN  RunCells(be, [bufs EXCEPT ![wr][c] = CellStep(be, bufs[rd], w, h, c, p)],
                    rd, wr, w, h, p, Tail(order))

\* Orders in which the cells of one pass are taken.
Ascending(n) == [i \in 1 .. n |-> i - 1]
Descending(n) == [i \in 1 .. n |-> n - i]
EvenOdd(n) ==
  [i \in 1 .. n |->
     IF i <= (n + 1) \div 2 THEN 2 * (i - 1) ELSE 2 * (i - (n + 1) \div 2) - 1]

\* cpu: the y, x loops, row by row; gpu: the fragments of one draw call run
\* in an order the driver chooses
Schedules(be) ==
  IF be = "cpu" THEN {"ascending"} ELSE {"ascending", "descending", "evenodd"}

Order(kind, n) ==
  IF kind = "ascending" THEN Ascending(n)
  ELSE IF kind = "descending" THEN Descending(n)
  ELSE EvenOdd(n)

\* Swap without the temporary: current = next; next = current
SwapAlias(s) == [s EXCEPT !.cur = s.nxt]

\* "Swap buffers": temp = current; current = next; next = temp
Swap(s) == [s EXCEPT !.cur = s.nxt, !.nxt = s.cur]

\* cpu computeStep: one pass from current to next, then the swap
ComputeStepCpu(s, w, h, p, order) ==
  Swap([s EXCEPT !.buf = RunCells("cpu", s.buf, s.cur, s.nxt, w, h, p, order)])

\* cpu update: for (i = 0; i < params.iterations; i++) computeStep()
RECURSIVE BatchCpu(_, _, _, _, _, _)
BatchCpu(s, w, h, p, order, n) ==
  IF n = 0 THEN s
  ELSE BatchCpu(ComputeStepCpu(s, w, h, p, order), w, h, p, order, n - 1)

\* gpu computeStep: draw i reads texture i % 2 and writes texture (i+1) % 2,
\* i counted from 0 in every call
RECURSIVE BatchGpu(_, _, _, _, _, _, _)
BatchGpu(s, w, h, p, order, i, n) ==
  IF i >= n THEN s
  ELSE BatchGpu([s EXCEPT
                   !.buf = RunCells("gpu", s.buf, i % 2, (i + 1) % 2, w, h, p, order),
                   !.wrote = (i + 1) % 2],
                 w, h, p, order, i + 1, n)

\* The whole grid stepped once, every cell from g alone: the first c cells of
\* g replaced by their updates computed from g.
RECURSIVE MapCells(_, _, _, _, _, _)
MapCells(be, g, w, h, p, c) ==
  IF c = 0 THEN g
  ELSE [MapCells(be, g, w, h, p, c - 1) EXCEPT ![c - 1] = CellStep(be, g, w, h, c - 1, p)]

StepGrid(be, g, w, h, p) == MapCells(be, g, w, h, p, Cardinality(DOMAIN g))

\* the kernel applied n times
RECURSIVE Iterate(_, _, _, _, _, _)
Iterate(be, g, w, h, p, n) ==
  IF n = 0 THEN g ELSE StepGrid(be, Iterate(be, g, w, h, p, n - 1), w, h, p)

(***************************************************************************)
(* Rendering.  The canvas is held as the inputs of the render that drew    *)
(* it: the grid or texture it read and the two mapping parameters.         *)
(***************************************************************************)
\* a canvas nothing was drawn on (setting canvas.width clears it)
Blank == [grid |-> <<>>, threshold |-> 0, sharpness |-> 0]

\* cpu render: reads currentGridRef.current
RenderCpu(s, p) ==
  [grid |-> s.buf[s.cur], threshold |-> p.threshold, sharpness |-> p.sharpness]

\* gpu render: binds texturesRef.current[(params.iterations + 1) % 2]
RenderGpu(s, p) ==
  [grid |-> s.buf[(p.iterations + 1) % 2], threshold |-> p.threshold,
   sharpness |-> p.sharpness]

\* the denominator of gs_map = (gs - threshold) / (0.9 - threshold)
GsMapDen(t) == Knee - t

\* the render that drew the canvas divided by zero
DividesByZero(r) == r # Blank /\ GsMapDen(r.threshold) = 0

\* gs read from the wrong channel: gs = b
GsOfB(cell) == cell[2]

\* const gs = a; float gs = color.r
Gs(cell) == cell[1]

\* gs_map = (gs - threshold) / (0.9 - threshold), for a denominator above 0
GsMap(cell, t) == Rnd((Gs(cell) - t) * Q, GsMapDen(t))

\* Natural numbers of any size, as sequences of digits to the base Q, the
\* least significant first: the powers below do not fit a machine integer.
RECURSIVE BigMul(_, _, _)
BigMul(n, x, carry) ==
  IF n = <<>>
  THEN IF carry = 0 THEN <<>> ELSE <<carry % Q>> \o BigMul(<<>>, x, carry \div Q)
  ELSE <<(Head(n) * x + carry) % Q>>
         \o BigMul(Tail(n), x, (Head(n) * x + carry) \div Q)

RECURSIVE BigPow(_, _)
BigPow(x, k) == IF k = 0 THEN <<1>> ELSE BigMul(BigPow(x, k - 1), x, 0)

\* n * Q^j
BigShift(n, j) == [i \in 1 .. j |-> 0] \o n

RECURSIVE BigStrip(_)
BigStrip(n) ==
  IF n # <<>> /\ n[Len(n)] = 0 THEN BigStrip(SubSeq(n, 1, Len(n) - 1)) ELSE n

RECURSIVE BigLeqFrom(_, _, _)
BigLeqFrom(a, b, i) ==
  IF i = 0 THEN TRUE
  ELSE IF a[i] # b[i] THEN a[i] < b[i]
  ELSE BigLeqFrom(a, b, i - 1)

BigLeq(a, b) ==
  IF Len(BigStrip(a)) # Len(BigStrip(b)) THEN Len(BigStrip(a)) < Len(BigStrip(b))
  ELSE BigLeqFrom(BigStrip(a), BigStrip(b), Len(BigStrip(a)))

\* r / Q is at most x^(k/10) rounded to the nearest 1/Q:
\* ((2r - 1) / (2Q))^10 <= (x / Q)^k
PowAtLeast(x, k, r) ==
  r = 0 \/ BigLeq(BigShift(BigPow(2 * r - 1, 10), k),
                  BigMul(BigShift(BigPow(x, k), 10), 1024, 0))

RECURSIVE PowSearch(_, _, _, _)
PowSearch(x, k, lo, hi) ==
  IF lo >= hi THEN lo
  ELSE IF PowAtLeast(x, k, (lo + hi + 1) \div 2)
       THEN PowSearch(x, k, (lo + hi + 1) \div 2, hi)
       ELSE PowSearch(x, k, lo, (lo + hi + 1) \div 2 - 1)

\* Math.pow(x, sharpness), pow(x, u_sharpness), to the nearest 1/Q: x in
\* [0,1], the exponent a positive multiple of 0.1
Pow(x, sh) == PowSearch(x, (10 * sh) \div Q, 0, Q)

\* sharpValue of one cell: Math.pow(Math.max(0, Math.min(1, gs_map)), sharpness)
Intensity(cell, t, sh) == Pow(Clamp01(GsMap(cell, t)), sh)

\* the intensity field a canvas shows, from the inputs of the render that
\* drew it
Pixels(r) ==
  [c \in DOMAIN r.grid |-> Intensity(r.grid[c], r.threshold, r.sharpness)]

(***************************************************************************)
(* The component.                                                          *)
(***************************************************************************)
Store == [buf |-> buf, cur |-> currentGridRef, nxt |-> nextGridRef, wrote |-> writeIdx]

\* a cleanup that cancels nothing
CancelNone(n, held) == n

\* the effect's cleanup: if (animationFrame) cancelAnimationFrame(animationFrame),
\* on a queue of n callbacks; held says the effect's variable names one of them
Cancel(n, held) == IF held THEN n - 1 ELSE n

\* update reading the parameters of the latest render instead of its own
SnapshotLive(cl, live) == live

\* The parameters update, computeStep and render see: those of the render
\* whose effect created update, whatever setParams has been given since.
Snapshot(cl, live) == cl.params

\* allocation of the two buffers and the seeding of the first
Seeded(w, h, centres) ==
  [buf |-> [i \in 0 .. 1 |-> IF i = 0 THEN SeedGrid(w, h, centres) ELSE ZeroGrid(w, h)],
   cur |-> 0, nxt |-> 1, wrote |-> 0]

\* values the sliders can be moved to
Edits ==
  {<<"iterations", 1>>, <<"iterations", 2>>, <<"dB", 2000>>, <<"threshold", 900>>}

\* The state once the component is mounted and its effect has run once.
Init ==
  /\ backend \in Backends
  /\ width = GridW
  /\ height = GridH
  /\ \E centres \in Centres(width, height) :
       /\ seeds = centres
       /\ buf = Seeded(width, height, centres).buf
       /\ oobWrite = SeedOob(width, height, centres)
  /\ currentGridRef = 0
  /\ nextGridRef = 1
  /\ writeIdx = 0
  /\ isRunning = FALSE
  /\ params = DefaultParams
  /\ closure = [isRunning |-> FALSE, params |-> DefaultParams]
  /\ effectPending = FALSE
  /\ animationFrame = FALSE
  /\ loops = 0
  /\ rendered = IF backend = "cpu"
                THEN RenderCpu([buf |-> buf, cur |-> 0], DefaultParams)
                ELSE Blank
  /\ reseeded = TRUE
  /\ event = "mount"
  /\ schedule \in Schedules(backend)
  /\ frames = 0
  /\ edits = 0

\* onClick of the Start/Stop button: setIsRunning(!isRunning)
Toggle ==
  /\ isRunning' = ~isRunning
  /\ effectPending' = TRUE
  /\ reseeded' = FALSE
  /\ event' = "toggle"
  /\ UNCHANGED <<backend, width, height, buf, currentGridRef, nextGridRef, writeIdx,
                 params, closure, animationFrame, loops, rendered, seeds, oobWrite,
                 frames, edits, schedule>>

\* onChange of a slider: setParams({...params, [key]: value})
SetParam(e) ==
  /\ edits < MaxEdits
  /\ params[e[1]] # e[2]
  /\ params' = [params EXCEPT ![e[1]] = e[2]]
  /\ effectPending' = TRUE
  /\ reseeded' = FALSE
  /\ event' = "setParam"
  /\ edits' = edits + 1
  /\ UNCHANGED <<backend, width, height, buf, currentGridRef, nextGridRef, writeIdx,
                 isRunning, closure, animationFrame, loops, rendered, seeds, oobWrite,
                 frames, schedule>>

\* cpu: the cleanup of the previous effect, then the effect of the new render
EffectCpu ==
  /\ backend = "cpu"
  /\ effectPending
  /\ isRunning => frames < MaxFrames
  /\ \E s \in {IF isRunning
                THEN BatchCpu(Store, width, height, params,
                              Order(schedule, width * height), params.iterations)
                ELSE Store} :
           /\ buf' = s.buf
           /\ currentGridRef' = s.cur
           /\ nextGridRef' = s.nxt
           /\ rendered' = RenderCpu(s, params)
  /\ animationFrame' = isRunning
  /\ loops' = Cancel(loops, animationFrame) + (IF isRunning THEN 1 ELSE 0)
  /\ frames' = IF isRunning THEN frames + 1 ELSE frames
  /\ closure' = [isRunning |-> isRunning, params |-> params]
  /\ effectPending' = FALSE
  /\ reseeded' = FALSE
  /\ event' = "effect"
  /\ UNCHANGED <<backend, width, height, writeIdx, isRunning, params, seeds,
                 oobWrite, edits, schedule>>

\* gpu: the cleanup of the previous effect, then the effect of the new
\* render, which calls initWebGL every time
EffectGpu ==
  /\ backend = "gpu"
  /\ effectPending
  /\ isRunning => frames < MaxFrames
  /\ \E centres \in Centres(width, height) :
     \E s \in {IF isRunning
                THEN BatchGpu(Seeded(width, height, centres), width, height, params,
                              Order(schedule, width * height), 0, params.iterations)
                ELSE Seeded(width, height, centres)} :
           /\ seeds' = centres
           /\ oobWrite' = SeedOob(width, height, centres)
           /\ buf' = s.buf
           /\ writeIdx' = s.wrote
           /\ rendered' = IF isRunning THEN RenderGpu(s, params) ELSE Blank
  /\ animationFrame' = isRunning
  /\ loops' = Cancel(loops, animationFrame) + (IF isRunning THEN 1 ELSE 0)
  /\ frames' = IF isRunning THEN frames + 1 ELSE frames
  /\ closure' = [isRunning |-> isRunning, params |-> params]
  /\ effectPending' = FALSE
  /\ reseeded' = TRUE
  /\ event' = "effect"
  /\ UNCHANGED <<backend, width, height, currentGridRef, nextGridRef, isRunning,
                 params, edits, schedule>>

\* cpu: the animation frame fires and runs update of the live effect
\* (which schedules the next callback in place of the one that ran)
FrameCpu ==
  /\ backend = "cpu"
  /\ animationFrame
  /\ loops > 0
  /\ closure.isRunning
  /\ frames < MaxFrames
  /\ \E s \in {BatchCpu(Store, width, height, Snapshot(closure, params),
                         Order(schedule, width * height),
                         Snapshot(closure, params).iterations)} :
           /\ buf' = s.buf
           /\ currentGridRef' = s.cur
           /\ nextGridRef' = s.nxt
           /\ rendered' = RenderCpu(s, Snapshot(closure, params))
  /\ frames' = frames + 1
  /\ reseeded' = FALSE
  /\ event' = "frame"
  /\ UNCHANGED <<backend, width, height, writeIdx, isRunning, params, closure,
                 effectPending, animationFrame, loops, seeds, oobWrite, edits, schedule>>

\* gpu: the animation frame fires and runs update of the live effect
\* (which schedules the next callback in place of the one that ran)
FrameGpu ==
  /\ backend = "gpu"
  /\ animationFrame
  /\ loops > 0
  /\ closure.isRunning
  /\ frames < MaxFrames
  /\ \E s \in {BatchGpu(Store, width, height, Snapshot(closure, params),
                         Order(schedule, width * height), 0,
                         Snapshot(closure, params).iterations)} :
           /\ buf' = s.buf
           /\ writeIdx' = s.wrote
           /\ rendered' = RenderGpu(s, Snapshot(closure, params))
  /\ frames' = frames + 1
  /\ reseeded' = FALSE
  /\ event' = "frame"
  /\ UNCHANGED <<backend, width, height, currentGridRef, nextGridRef, isRunning,
                 params, closure, effectPending, animationFrame, loops, seeds, oobWrite,
                 edits, schedule>>

\* cpu resetSimulation: drops both grids, initGrid, render
ResetCpu ==
  /\ backend = "cpu"
  /\ \E centres \in Centres(width, height) :
     \E s \in {Seeded(width, height, centres)} :
           /\ seeds' = centres
           /\ oobWrite' = SeedOob(width, height, centres)
           /\ buf' = s.buf
           /\ currentGridRef' = s.cur
           /\ nextGridRef' = s.nxt
           /\ rendered' = RenderCpu(s, params)
  /\ reseeded' = TRUE
  /\ event' = "reset"
  /\ UNCHANGED <<backend, width, height, writeIdx, isRunning, params, closure,
                 effectPending, animationFrame, loops, frames, edits, schedule>>

\* gpu resetSimulation: setIsRunning(false), initializeTexture on texture 0,
\* texture 1 cleared, render
ResetGpu ==
  /\ backend = "gpu"
  /\ \E centres \in Centres(width, height) :
     \E s \in {Seeded(width, height, centres)} :
           /\ seeds' = centres
           /\ oobWrite' = SeedOob(width, height, centres)
           /\ buf' = s.buf
           /\ writeIdx' = s.wrote
           /\ rendered' = RenderGpu(s, params)
  /\ isRunning' = FALSE
  /\ effectPending' = (effectPending \/ isRunning)
  /\ reseeded' = TRUE
  /\ event' = "reset"
  /\ UNCHANGED <<backend, width, height, currentGridRef, nextGridRef, params,
                 closure, animationFrame, loops, frames, edits, schedule>>

Next ==
  \/ Toggle
  \/ \E e \in Edits : SetParam(e)
  \/ EffectCpu
  \/ EffectGpu
  \/ FrameCpu
  \/ FrameGpu
  \/ ResetCpu
  \/ ResetGpu

Spec == Init /\ [][Next]_vars

(***************************************************************************)
(* The simulation core driven by an arbitrary caller: initialize / reset   *)
(* and advance(params), on a grid of any size and with any parameter set,  *)
(* by the same seeding and stepping code as the component.                 *)
(***************************************************************************)
\* parameter sets a caller may run a session with, in and out of the
\* sliders' ranges
CoreParams ==
  {[DefaultParams EXCEPT !.iterations = 3],
   [DefaultParams EXCEPT !.iterations = 2, !.killMax = 100],
   [dA |-> 2000, dB |-> 2000, feed |-> -100, feedDiff |-> 100, killMin |-> -50,
    killMax |-> 200, iterations |-> 1, feedVariation |-> 100, sharpness |-> 100,
    threshold |-> 500],
   [dA |-> -1000, dB |-> 0, feed |-> 500, feedDiff |-> 0, killMin |-> 300,
    killMax |-> 100, iterations |-> 2, feedVariation |-> 0, sharpness |-> 100,
    threshold |-> 500]}

\* the grids a caller starts from: a seeded grid, or the all-A grid
CoreGrids(w, h) ==
  {<<centres, SeedGrid(w, h, centres)>> : centres \in Centres(w, h)}
    \cup {<<{}, FillA(w, h)>>}

CoreInit ==
  /\ backend \in Backends
  /\ width \in 1 .. GridW
  /\ height \in 1 .. GridH
  /\ \E sg \in CoreGrids(width, height) :
       /\ seeds = sg[1]
       /\ buf = [i \in 0 .. 1 |-> IF i = 0 THEN sg[2] ELSE ZeroGrid(width, height)]
       /\ oobWrite = SeedOob(width, height, sg[1])
  /\ currentGridRef = 0
  /\ nextGridRef = 1
  /\ writeIdx = 0
  /\ isRunning = FALSE
  /\ params \in CoreParams
  /\ closure = [isRunning |-> FALSE, params |-> params]
  /\ effectPending = FALSE
  /\ animationFrame = FALSE
  /\ loops = 0
  /\ rendered = Blank
  /\ reseeded = (seeds # {})
  /\ event = "mount"
  /\ schedule \in Schedules(backend)
  /\ frames = 0
  /\ edits = 0

\* initialize / reset: a new session, seeded by initGrid, initializeTexture
CoreSeed ==
  /\ \E centres \in Centres(width, height) :
     \E s \in {Seeded(width, height, centres)} :
       /\ seeds' = centres
       /\ oobWrite' = SeedOob(width, height, centres)
       /\ buf' = s.buf
       /\ currentGridRef' = s.cur
       /\ nextGridRef' = s.nxt
       /\ writeIdx' = s.wrote
  /\ closure' = [isRunning |-> FALSE, params |-> params]
  /\ rendered' = Blank
  /\ reseeded' = TRUE
  /\ event' = "reset"
  /\ UNCHANGED <<backend, width, height, isRunning, params, effectPending,
                 animationFrame, loops, frames, edits, schedule>>

\* advance(params): one batch of params.iterations steps, then the render
CoreAdvance ==
  /\ frames < MaxFrames
  /\ \E s \in {IF backend = "cpu"
               THEN BatchCpu(Store, width, height, params,
                             Order(schedule, width * height), params.iterations)
               ELSE BatchGpu(Store, width, height, params,
                             Order(schedule, width * height), 0,
                             params.iterations)} :
       /\ buf' = s.buf
       /\ currentGridRef' = s.cur
       /\ nextGridRef' = s.nxt
       /\ writeIdx' = s.wrote
       /\ rendered' = IF backend = "cpu"
                      THEN RenderCpu(s, params) ELSE RenderGpu(s, params)
  /\ closure' = [isRunning |-> TRUE, params |-> params]
  /\ frames' = frames + 1
  /\ reseeded' = FALSE
  /\ event' = "frame"
  /\ UNCHANGED <<backend, width, height, isRunning, params, effectPending,
                 animationFrame, loops, seeds, oobWrite, edits, schedule>>

CoreNext ==
  \/ CoreSeed
  \/ CoreAdvance

SpecCore == CoreInit /\ [][CoreNext]_vars

(***************************************************************************)
(* The intensity mapper alone: render on a one-cell grid holding any       *)
(* concentrations, under any threshold and sharpness of the sliders.       *)
(***************************************************************************)
\* concentrations a cell may hold
MapLevels == {0, 250, 500, 600, 700, 899, 900, 1000}

\* positions of the threshold slider: min 0, max 0.9, step 0.1
MapThresholds == {0, 300, 500, 800, 900}

\* positions of the sharpness slider
MapSharpness == {100, 500, 1000, 2000}

MapInit ==
  /\ backend \in Backends
  /\ width = 1
  /\ height = 1
  /\ \E a \in MapLevels : \E b \in {0, 500, 1000} :
       buf = [i \in 0 .. 1 |-> [c \in Cells(1, 1) |-> <<a, b>>]]
  /\ \E t \in MapThresholds : \E sh \in MapSharpness :
       params = [DefaultParams EXCEPT !.threshold = t, !.sharpness = sh]
  /\ closure = [isRunning |-> FALSE, params |-> params]
  /\ currentGridRef = 0
  /\ nextGridRef = 1
  /\ writeIdx = 0
  /\ isRunning = FALSE
  /\ effectPending = FALSE
  /\ animationFrame = FALSE
  /\ loops = 0
  /\ rendered = Blank
  /\ seeds = {}
  /\ oobWrite = FALSE
  /\ reseeded = FALSE
  /\ event = "mount"
  /\ schedule = "ascending"
  /\ frames = 0
  /\ edits = 0

\* render(ctx), render(): the canvas is drawn from the current buffer
MapRender ==
  /\ rendered = Blank
  /\ rendered' = IF backend = "cpu" THEN RenderCpu(Store, params)
                 ELSE RenderGpu(Store, params)
  /\ event' = "render"
  /\ UNCHANGED <<backend, width, height, buf, currentGridRef, nextGridRef, writeIdx,
                 isRunning, params, closure, effectPending, animationFrame, loops, seeds,
                 oobWrite, reseeded, schedule, frames, edits>>

MapNext == MapRender

SpecMap == MapInit /\ [][MapNext]_vars

(***************************************************************************)
(* Notions the properties use.                                             *)
(***************************************************************************)
\* the buffer a reader gets: cpu currentGridRef.current, gpu the texture
\* written last
Readable == IF backend = "cpu" THEN buf[currentGridRef] ELSE buf[writeIdx]

\* the other buffer
Stale == IF backend = "cpu" THEN buf[nextGridRef] ELSE buf[1 - writeIdx]

\* the buffer the first step of the next batch reads
ReadNext == IF backend = "cpu" THEN buf[currentGridRef] ELSE buf[0]

\* the last action ran a batch of steps
Advanced == event = "frame" \/ (event = "effect" /\ closure.isRunning)

InUnit(v) == v \in 0 .. Q

\* squared toroidal distance between cells c and d of a w by h grid
TorDist2(w, h, c, d) ==
  LET ax == Abs((c % w) - (d % w))
      ay == Abs((c \div w) - (d \div w))
      tx == Min(ax, w - ax)
      ty == Min(ay, h - ay)
  IN  tx * tx + ty * ty

\* the grid the seeding is to leave
SeedPost(w, h, centres) ==
  [c \in Cells(w, h) |->
     IF \E ctr \in centres : TorDist2(w, h, c, ctr) <= radius * radius
     THEN <<0, Q>> ELSE <<Q, 0>>]

(***************************************************************************)
(* The claims.                                                             *)
(***************************************************************************)

\* C1 (SpecCore): in every reachable state, whatever parameter sets the
\* batches ran with, every cell of the readable buffer has a and b in [0,1].
C1_Bounded ==
  \A c \in DOMAIN Readable : InUnit(Readable[c][1]) /\ InUnit(Readable[c][2])

\* C1 witness: a batch ran with a negative feed parameter, and the value of
\* some cell left the range before the clamp, below 0 for one cell and above 1
\* for another.
C1_Witness ==
  /\ Advanced
  /\ closure.params.feed < 0
  /\ \E c \in Cells(width, height) :
       RawB(backend, Stale, width, height, c, closure.params) < 0
  /\ \E c \in Cells(width, height) :
       RawA(backend, Stale, width, height, c, closure.params) > Q

\* C2 (Spec), the claim as stated: a frame's batch leaves in the readable
\* buffer the kernel applied `iterations` times to the readable buffer the
\* previous batch left, so that k batches make k * n steps.
C2_Chained ==
  [][event' = "frame" =>
       Readable' = Iterate(backend, Readable, width, height, closure.params,
                           closure.params.iterations)]_vars

\* C3 (Spec), the claim as stated: after a batch, the canvas was rendered
\* from the buffer the last iteration of the batch wrote.
C3_RenderFinal == Advanced => rendered.grid = Readable

\* C4 (Spec), the claim as stated: start, stop and a parameter change leave
\* both buffers as they are, and the random seeding runs only in reset (and
\* at mount).
C4_SeedOnlyOnReset ==
  [][/\ event' \in {"toggle", "setParam"} => buf' = buf
     /\ reseeded' => event' = "reset"]_vars

\* C5 (Spec), the claim as stated: the kill rate the kernel uses in column x
\* is killMin + (x / W) * (killMax - killMin), which is killMin in column 0
\* and at most killMax when killMin <= killMax.
C5_KillGradient ==
  \A x \in 0 .. (width - 1) :
    /\ KillRate(backend, params, x, width)
         = width * params.killMin + x * (params.killMax - params.killMin)
    /\ x = 0 => KillRate(backend, params, x, width) = width * params.killMin
    /\ params.killMin <= params.killMax
         => KillRate(backend, params, x, width) <= width * params.killMax

\* C6 (Spec): current and next are two distinct buffers of the same shape,
\* and a step read current alone and wrote next alone before the roles were
\* exchanged: after a batch the readable buffer is the kernel applied cell by
\* cell to the other buffer, which still holds what the last step read.
C6_DoubleBuffer ==
  /\ backend = "cpu" => currentGridRef # nextGridRef
  /\ writeIdx \in 0 .. 1
  /\ DOMAIN buf[0] = Cells(width, height)
  /\ DOMAIN buf[1] = Cells(width, height)
  /\ Advanced => Readable = StepGrid(backend, Stale, width, height, closure.params)

\* C6 witness: the component has run its second batch, the last step read a
\* grid that is not uniform and changed it.
C6_Witness ==
  /\ event = "frame"
  /\ backend = "cpu"
  /\ frames = 2
  /\ \E c, d \in Cells(width, height) : Stale[c] # Stale[d]
  /\ Readable # Stale

\* C7 (SpecCore): a batch that starts from a buffer whose every cell is
\* (a=1, b=0) leaves every cell (a=1, b=0), whatever the parameters and the
\* grid size.
C7_FixedPoint ==
  [][(event' = "frame" /\ ReadNext = FillA(width, height))
       => Readable' = FillA(width, height)]_vars

\* C7 witness: two batches have run from the all-A grid, the last with
\* parameters outside the sliders' ranges, and every cell is still (1, 0).
C7_Witness ==
  /\ event = "frame"
  /\ seeds = {}
  /\ frames = 2
  /\ closure.params.dA < 0
  /\ width * height > 1
  /\ Readable = FillA(width, height)

\* C8 (Spec), the claim as stated: no render divides by zero (the mapper has
\* no other handling of threshold = 0.9).
C8_NoDivisionByZero == ~DividesByZero(rendered)

\* C9 (SpecCore): a batch leaves the same buffer whatever the order in which
\* the cells of each pass are taken: the kernel applied cell by cell to the
\* buffer the batch started from, `iterations` times.
C9_OrderFree ==
  [][event' = "frame" =>
       Readable' = Iterate(backend, ReadNext, width, height, params',
                           params'.iterations)]_vars

\* C9 witness: a gpu batch took the cells of a grid that is not uniform in
\* descending order and changed the grid.
C9_Witness ==
  /\ event = "frame"
  /\ backend = "gpu"
  /\ schedule = "descending"
  /\ \E c, d \in Cells(width, height) : Stale[c] # Stale[d]
  /\ Readable # Stale

C10_GridOnly ==
  (event \in {"mount", "reset"} /\ seeds # {})
    => buf[0] = SeedPost(width, height, seeds)


\* the transfer curve of a concentration a, for threshold t < 0.9: 0 up to the
\* threshold, 1 from 0.9 on, (a - t) / (0.9 - t) between, raised to the power
\* sharpness
Curve(a, t, sh) ==
  Pow(IF a <= t THEN 0
      ELSE IF a >= Knee THEN Q
      ELSE Rnd((a - t) * Q, Knee - t), sh)

\* C11 (SpecMap): for a threshold below 0.9 the intensity of every cell the
\* canvas shows is the transfer curve of its a, lies in [0,1], is the same
\* whatever the cell's b, and with threshold 0.5 and sharpness 1 it is 0 for
\* a = 0.5, 0.5 for a = 0.7 and 1 for a = 0.9.
C11_IntensityMap ==
  (rendered # Blank /\ rendered.threshold < Knee) =>
    \A c \in DOMAIN rendered.grid :
      \A v \in {Pixels(rendered)[c]} :
        LET cell == rendered.grid[c]
            t == rendered.threshold
            sh == rendered.sharpness
        IN  /\ v = Curve(cell[1], t, sh)
            /\ InUnit(v)
            /\ \A b \in MapLevels : Intensity(<<cell[1], b>>, t, sh) = v
            /\ (t = 500 /\ sh = Q) =>
                  /\ cell[1] = 500 => v = 0
                  /\ cell[1] = 700 => v = 500
                  /\ cell[1] = 900 => v = Q

\* C11 witness: a canvas drawn with threshold 0.5 and sharpness 1 from a cell
\* with a = 0.7 and b = 1 shows intensity 0.5.
C11_Witness ==
  /\ event = "render"
  /\ rendered # Blank
  /\ rendered.threshold = 500
  /\ rendered.sharpness = Q
  /\ rendered.grid[0] = <<700, Q>>
  /\ Pixels(rendered)[0] = 500

\* C12 (Spec): every batch runs all its iterations with one parameter set.  A
\* batch of a pending animation frame runs with the parameters captured when
\* its effect ran, whatever has been set since; the first batch with the new
\* parameters is the one the next effect runs.
C12_ParamSnapshot ==
  [][/\ event' = "frame" =>
          /\ Readable' = Iterate(backend, ReadNext, width, height, closure.params,
                                 closure.params.iterations)
          /\ rendered'.threshold = closure.params.threshold
          /\ rendered'.sharpness = closure.params.sharpness
          /\ closure' = closure
     /\ (event' = "effect" /\ isRunning) =>
          /\ Readable' = Iterate(backend,
                                 IF backend = "cpu" THEN Readable
                                 ELSE SeedGrid(width, height, seeds'),
                                 width, height, params, params.iterations)
          /\ closure'.params = params]_vars

\* C12 witness: dB was changed while an animation frame was pending, the frame
\* ran before the effect, and its last step is the kernel with the old dB and
\* not the kernel with the new one.
C12_Witness ==
  /\ event = "frame"
  /\ effectPending
  /\ params.dB # closure.params.dB
  /\ Readable = StepGrid(backend, Stale, width, height, closure.params)
  /\ Readable # StepGrid(backend, Stale, width, height, params)

\* C13 (Spec), the claim as stated: right after reset the readable buffer is
\* the newly seeded grid, every cell (1,0) or (0,1), and the canvas was
\* rendered from it.
C13_ResetShowsSeed ==
  event = "reset" =>
    /\ Readable = SeedGrid(width, height, seeds)
    /\ \A c \in Cells(width, height) : Readable[c] \in {<<Q, 0>>, <<0, Q>>}
    /\ rendered # Blank
    /\ rendered.grid = Readable

\* C14 (Spec), the claim as stated: while the simulation is stopped no batch
\* runs, and the animation-frame queue never holds more than one callback.
C14_StopHalts ==
  [][/\ event' = "frame" => isRunning
     /\ (event' = "effect" /\ ~isRunning) => buf' = buf \/ reseeded'
     /\ loops' <= 1]_vars

\* The part of C14 about the loop: the queue never holds more than one
\* callback, and it holds one exactly when the live effect's variable names
\* it.
C14_OneLoop == loops = (IF animationFrame THEN 1 ELSE 0)

\* The part of C14 that the cleanup secures: once the effect has run after a
\* stop, nothing is scheduled.
C14_HaltsAfterCleanup == (~isRunning /\ ~effectPending) => loops = 0

====
